---- MODULE Spec2Model ----
(***************************************************************************)
(* Model of the stock-scope backend (src/src/server.ts): the Firestore     *)
(* "alerts" collection, the HTTP handlers behind verifyFirebaseToken, and  *)
(* the cron callback that evaluates untriggered alerts.                    *)
(*                                                                         *)
(* Every `await` of the source is a point where other requests and other   *)
(* cron invocations may run, so each action below is the code between two  *)
(* awaits: it consumes the result of the awaited call (success or          *)
(* rejection) and runs up to the next await.                               *)
(***************************************************************************)
EXTENDS Integers, Sequences, FiniteSets, TLC

(* ---------------------------- bounds ----------------------------------- *)
MaxAlerts == 2      \* documents ever added to the "alerts" collection
MaxClock  == 1      \* wall clock / server timestamps range over 0..MaxClock
MaxPrice  == 3      \* the quote feed answers a price in 1..MaxPrice
MaxMails  == 2      \* e-mails accepted by the mail service, per alert
MaxRequests == 3    \* HTTP requests received
CronRequests == 2   \* HTTP requests received while cron invocations run

GlobalMax == 100    \* globalLimiter: max requests of a client per window
AlertMax  == 10     \* alertLimiter: max requests of a client per window

Users  == {"A", "B"}
Clients == {"c1", "c2"}     \* req.ip, the key of both rate limiters
Cycles == {1, 2}    \* cron invocations that may be in flight at once
Slots  == {1, 2}    \* HTTP requests that may be in flight at once
Prices == 1..MaxPrice
NoTime == -1        \* field triggeredAt absent from the document

(* ------------------------ JavaScript values ---------------------------- *)
\* A JSON value of a request body, tagged with its type.
Undef  == [k |-> "undef", n |-> 0, s |-> ""]
NaN    == [k |-> "nan", n |-> 0, s |-> ""]
Num(n) == [k |-> "num", n |-> n, s |-> ""]
Str(s) == [k |-> "str", n |-> 0, s |-> s]

\* ToBoolean, as `!x` uses it.
Truthy(v) ==
    CASE v.k = "undef" -> FALSE
      [] v.k = "nan"   -> FALSE
      [] v.k = "num"   -> v.n # 0
      [] v.k = "str"   -> v.s # ""

\* ToNumber on the strings of the model.
StrToNum(s) ==
    CASE s = ""  -> Num(0)
      [] s = "2" -> Num(2)
      [] OTHER   -> NaN

\* ToNumber, as the relational operators apply it to a non-number operand.
ToNumber(v) ==
    CASE v.k = "num" -> v
      [] v.k = "str" -> StrToNum(v.s)
      [] OTHER       -> NaN

\* currentPrice >= targetPrice, currentPrice a number: false when the other
\* operand converts to NaN.
JsGeq(p, v) == LET t == ToNumber(v) IN t.k = "num" /\ p >= t.n
\* currentPrice <= targetPrice
JsLeq(p, v) == LET t == ToNumber(v) IN t.k = "num" /\ p <= t.n

(* --------------------------- HTTP inputs ------------------------------- *)
Routes == {"/postalert", "/alerts", "/alerts/:id"}

\* Authorization headers: absent, another scheme, or "Bearer <token>".
NoHeader == [scheme |-> "", token |-> ""]
Headers ==
    {NoHeader, [scheme |-> "Basic", token |-> "tokA"]}
    \cup {[scheme |-> "Bearer", token |-> t] : t \in {"tokA", "tokB", "bad"}}

\* The uid the identity provider decodes from a token it accepts.
ValidTokens == {"tokA", "tokB"}
UidOf(token) == IF token = "tokA" THEN "A" ELSE "B"

Body(symbol, targetPrice, alertName, direction) ==
    [symbol |-> symbol, targetPrice |-> targetPrice,
     alertName |-> alertName, direction |-> direction]

\* Request bodies of POST /postalert.
GoodBodies ==
    {Body(Str("AAPL"), Num(2), Str("n"), Str(d)) : d \in {"above", "below"}}
OddBodies ==
    {Body(Str("AAPL"), Num(0 - 1), Str("n"), Str("above")),
     Body(Str("AAPL"), Str("abc"), Str("n"), Str("below"))}
BadBodies ==
    {Body(Undef, Num(2), Str("n"), Str("above")),
     Body(Str(""), Num(2), Str("n"), Str("above")),
     Body(Str("AAPL"), Undef, Str("n"), Str("above")),
     Body(Str("AAPL"), Num(0), Str("n"), Str("below")),
     Body(Str("AAPL"), NaN, Str("n"), Str("below")),
     Body(Str("AAPL"), Num(2), Undef, Str("below")),
     Body(Str("AAPL"), Num(2), Str("n"), Undef),
     Body(Str("AAPL"), Num(2), Str("n"), Str("sideways")),
     Body(Str("AAPL"), Num(2), Str("n"), Str("Above"))}
Bodies == GoodBodies \cup OddBodies \cup BadBodies

(* ------------------------------ state ---------------------------------- *)
VARIABLES
    reqs,       \* per HTTP request in flight: position in the middleware chain
    served,     \* number of HTTP requests received during the run
    stats,      \* "stats_routes_users": <<safeRoute, uid>> -> document data
    alerts,     \* the "alerts" collection: document id -> document data
    nextId,     \* number of documents ever added (ids are never reused)
    now,        \* wall clock, also the store's server timestamp
    cron,       \* per cron invocation: position in the callback and its locals
    sent,       \* per alert id: e-mails accepted by the mail service
    ip,         \* per HTTP request in flight: req.ip
    hits,       \* globalLimiter's store: client -> requests in this window
    alertHits,  \* alertLimiter's store: client -> requests in this window
    byUser      \* history: user -> requests that reached alertLimiter in
                \* its current window

limVars == <<ip, hits, alertHits, byUser>>

vars == <<reqs, served, stats, alerts, nextId, now, cron, sent,
          ip, hits, alertHits, byUser>>

AlertIds == 1..MaxAlerts

\* Sequence of the elements of a set of integers, ascending.
RECURSIVE SeqOf(_)
SeqOf(S) ==
    IF S = {} THEN <<>>
    ELSE LET m == CHOOSE x \in S : \A y \in S : x <= y
         IN <<m>> \o SeqOf(S \ {m})

\* snapshot.docs.map(doc => ({id: doc.id, ...doc.data()}))
DocsOf(store, ids) ==
    LET order == SeqOf(ids)
    IN [j \in 1..Len(order) |-> [id |-> order[j], data |-> store[order[j]]]]

UntriggeredIds_all(store) == DOMAIN store

\* collection("alerts").where("triggered", "==", false).get()
UntriggeredIds(store) == {i \in DOMAIN store : store[i].triggered = FALSE}

FreeReq == [pc |-> "free", route |-> "", hdr |-> NoHeader, idp |-> "none",
            uid |-> "", stat |-> "none", ran |-> FALSE, id |-> 0,
            status |-> 0, list |-> <<>>, newId |-> 0]

\* pc: the await the invocation is at; snap, idx: the alerts it loaded and
\* the one its loop is at; price: currentPrice; mail: how sendEmail ended for
\* this alert; err: the call whose rejection its last console.error line
\* reports.
IdleCron == [pc |-> "idle", snap |-> <<>>, idx |-> 0, price |-> 0,
             mail |-> "none", err |-> "none"]

Init ==
    /\ reqs = [r \in Slots |-> FreeReq]
    /\ served = 0
    /\ stats = <<>>
    /\ alerts = <<>>
    /\ nextId = 0
    /\ now = 0
    /\ cron = [w \in Cycles |-> IdleCron]
    /\ sent = [i \in AlertIds |-> 0]
    /\ ip = [r \in Slots |-> ""]
    /\ hits = [c \in Clients |-> 0]
    /\ alertHits = [c \in Clients |-> 0]
    /\ byUser = [u \in Users |-> 0]

(* --------------------------- cron callback ----------------------------- *)
\* The alert the loop of invocation w is at.
Cur(w) == cron[w].snap[cron[w].idx]

shouldTrigger_strict(direction, currentPrice, targetPrice) ==
    LET t == ToNumber(targetPrice)
    IN \/ direction = Str("above") /\ t.k = "num" /\ currentPrice > t.n
       \/ direction = Str("below") /\ t.k = "num" /\ currentPrice < t.n

\* let shouldTrigger = false; if (...) ... else if (...) ...
shouldTrigger(direction, currentPrice, targetPrice) ==
    IF direction = Str("above") /\ JsGeq(currentPrice, targetPrice) THEN TRUE
    ELSE IF direction = Str("below") /\ JsLeq(currentPrice, targetPrice) THEN TRUE
    ELSE FALSE

\* End of one iteration of `for (const alert of alerts)`: the loop moves to
\* the next alert of the snapshot, or the callback returns and its locals
\* are gone.
Advance(w, caught) ==
    LET c == cron[w]
    IN cron' = [cron EXCEPT ![w] =
                 IF c.idx < Len(c.snap)
                 THEN [c EXCEPT !.pc = "quote", !.idx = c.idx + 1, !.price = 0,
                                !.mail = "none",
                                !.err = IF caught = "" THEN c.err ELSE caught]
                 ELSE IdleCron]

\* if (!shouldTrigger) { console.log(...); continue; }
Continue(w) == Advance(w, "")

Catch_rethrow(w, call) ==
    cron' = [cron EXCEPT ![w] = [IdleCron EXCEPT !.pc = "rejected"]]

\* catch (err) { console.error("Error checking alert:", err); }: the
\* rejection of an awaited call of the iteration is logged and the loop goes
\* on.
Catch(w, call) == Advance(w, call)

\* No invocation w is running: it has returned, or its promise has rejected.
Ended(w) == cron[w].pc \in {"idle", "rejected"}

\* The schedule fires and the query for untriggered alerts answers.
CronLoad(w) ==
    /\ Ended(w)
    /\ LET docs == DocsOf(alerts, UntriggeredIds(alerts))
       IN cron' = [cron EXCEPT ![w] =
                    IF docs = <<>> THEN IdleCron
                    ELSE [IdleCron EXCEPT !.pc = "quote", !.snap = docs, !.idx = 1]]
    /\ UNCHANGED <<reqs, served, stats, alerts, nextId, now, sent, limVars>>

\* The query rejects: it is awaited outside the try block.
CronLoadFail(w) ==
    /\ Ended(w)
    /\ cron' = [cron EXCEPT ![w] = [IdleCron EXCEPT !.pc = "rejected"]]
    /\ UNCHANGED <<reqs, served, stats, alerts, nextId, now, sent, limVars>>

\* The quote request answers currentPrice = p.
QuoteOk(w, p) ==
    /\ cron[w].pc = "quote"
    /\ IF shouldTrigger(Cur(w).data.direction, p, Cur(w).data.targetPrice)
       THEN cron' = [cron EXCEPT ![w].pc = "getUser", ![w].price = p]
       ELSE Continue(w)
    /\ UNCHANGED <<reqs, served, stats, alerts, nextId, now, sent, limVars>>

\* The quote request rejects.
QuoteFail_asZero(w) ==
    /\ cron[w].pc = "quote"
    /\ IF shouldTrigger(Cur(w).data.direction, 0, Cur(w).data.targetPrice)
       THEN cron' = [cron EXCEPT ![w].pc = "getUser"]
       ELSE Continue(w)
    /\ UNCHANGED <<reqs, served, stats, alerts, nextId, now, sent, limVars>>

QuoteFail(w) ==
    /\ cron[w].pc = "quote"
    /\ Catch(w, "quote")
    /\ UNCHANGED <<reqs, served, stats, alerts, nextId, now, sent, limVars>>

\* admin.auth().getUser(userId) answers a record with or without an email.
GetUserOk(w, hasEmail) ==
    /\ cron[w].pc = "getUser"
    /\ cron' = [cron EXCEPT ![w].pc = IF hasEmail THEN "sendEmail" ELSE "update"]
    /\ UNCHANGED <<reqs, served, stats, alerts, nextId, now, sent, limVars>>

GetUserFail(w) ==
    /\ cron[w].pc = "getUser"
    /\ Catch(w, "getUser")
    /\ UNCHANGED <<reqs, served, stats, alerts, nextId, now, sent, limVars>>

sendEmail_throws(w, ok) ==
    /\ cron[w].pc = "sendEmail"
    /\ IF ok
       THEN /\ sent[Cur(w).id] < MaxMails
            /\ sent' = [sent EXCEPT ![Cur(w).id] = @ + 1]
            /\ cron' = [cron EXCEPT ![w].pc = "update", ![w].mail = "sent"]
       ELSE /\ sent' = sent
            /\ Catch(w, "sendEmail")
    /\ UNCHANGED <<reqs, served, stats, alerts, nextId, now, limVars>>

\* sendEmail: resend.emails.send inside its own try/catch, so the promise
\* the callback awaits never rejects.
sendEmail(w, ok) ==
    /\ cron[w].pc = "sendEmail"
    /\ IF ok
       THEN /\ sent[Cur(w).id] < MaxMails
            /\ sent' = [sent EXCEPT ![Cur(w).id] = @ + 1]
       ELSE sent' = sent
    /\ cron' = [cron EXCEPT ![w].pc = "update",
                            ![w].mail = IF ok THEN "sent" ELSE "failed",
                            ![w].err = IF ok THEN @ ELSE "sendEmail"]
    /\ UNCHANGED <<reqs, served, stats, alerts, nextId, now, limVars>>

markTriggered_toggle(store, id, t) ==
    [store EXCEPT ![id].triggered = ~@, ![id].triggeredAt = t]

markTriggered_noFlag(store, id, t) ==
    [store EXCEPT ![id].triggeredAt = t]

markTriggered_reprice(store, id, t) ==
    [store EXCEPT ![id].triggered = TRUE, ![id].triggeredAt = t,
                  ![id].targetPrice = Num(t)]

\* doc(id).update({triggered: true, triggeredAt: serverTimestamp()})
markTriggered(store, id, t) ==
    [store EXCEPT ![id].triggered = TRUE, ![id].triggeredAt = t]

UpdateOk(w) ==
    /\ cron[w].pc = "update"
    /\ Cur(w).id \in DOMAIN alerts
    /\ alerts' = markTriggered(alerts, Cur(w).id, now)
    /\ Advance(w, "")
    /\ UNCHANGED <<reqs, served, stats, nextId, now, sent, limVars>>

\* update() rejects: the document is gone (NOT_FOUND) or the store fails.
UpdateFail(w) ==
    /\ cron[w].pc = "update"
    /\ Catch(w, "update")
    /\ UNCHANGED <<reqs, served, stats, alerts, nextId, now, sent, limVars>>

CronStep(w) ==
    \/ CronLoad(w)
    \/ CronLoadFail(w)
    \/ \E p \in Prices : QuoteOk(w, p)
    \/ QuoteFail(w)
    \/ \E e \in BOOLEAN : GetUserOk(w, e)
    \/ GetUserFail(w)
    \/ \E ok \in BOOLEAN : sendEmail(w, ok)
    \/ UpdateOk(w)
    \/ UpdateFail(w)

Tick ==
    /\ now < MaxClock
    /\ now' = now + 1
    /\ UNCHANGED <<reqs, served, stats, alerts, nextId, cron, sent, limVars>>

(* ------------------------ verifyFirebaseToken -------------------------- *)
\* route.replace(/\//g, "_")
safeRoute(route) ==
    CASE route = "/postalert"  -> "_postalert"
      [] route = "/alerts"     -> "_alerts"
      [] route = "/alerts/:id" -> "_alerts_:id"
      [] route = "/stocks"     -> "_stocks"
      [] route = "/stock"      -> "_stock"
      [] route = "/stats"      -> "_stats"

\* res.status(code).json(...): the request is answered.
Respond(r, code) ==
    reqs' = [reqs EXCEPT ![r].pc = "done", ![r].status = code]

Arrive_anyScheme(r, route, hdr) ==
    /\ reqs[r].pc = "free"
    /\ served < MaxRequests
    /\ served' = served + 1
    /\ reqs' = [reqs EXCEPT ![r] =
                 IF hdr = NoHeader
                 THEN [FreeReq EXCEPT !.pc = "done", !.route = route, !.hdr = hdr,
                                      !.status = 401]
                 ELSE [FreeReq EXCEPT !.pc = "verify", !.route = route, !.hdr = hdr,
                                      !.idp = "called"]]
    /\ UNCHANGED <<stats, alerts, nextId, now, cron, sent>>

\* A request arrives: the header check, then verifyIdToken(token) is called.
Arrive(r, route, hdr) ==
    /\ reqs[r].pc = "free"
    /\ served < MaxRequests
    /\ served' = served + 1
    /\ reqs' = [reqs EXCEPT ![r] =
                 IF hdr.scheme # "Bearer"
                 THEN [FreeReq EXCEPT !.pc = "done", !.route = route, !.hdr = hdr,
                                      !.status = 401]
                 ELSE [FreeReq EXCEPT !.pc = "verify", !.route = route, !.hdr = hdr,
                                      !.idp = "called"]]
    /\ UNCHANGED <<stats, alerts, nextId, now, cron, sent>>

\* GET /: no gate, the handler answers at once.
Root(r, route, hdr) ==
    /\ reqs[r].pc = "free"
    /\ served < MaxRequests
    /\ served' = served + 1
    /\ reqs' = [reqs EXCEPT ![r] =
                 [FreeReq EXCEPT !.pc = "done", !.route = route, !.hdr = hdr,
                                 !.ran = TRUE, !.status = 200]]
    /\ UNCHANGED <<stats, alerts, nextId, now, cron, sent>>

\* The 429 of a rate limiter on arrival: nothing behind it runs.
TooMany(r, route, hdr) ==
    /\ reqs[r].pc = "free"
    /\ served < MaxRequests
    /\ served' = served + 1
    /\ reqs' = [reqs EXCEPT ![r] =
                 [FreeReq EXCEPT !.pc = "done", !.route = route, !.hdr = hdr,
                                 !.status = 429]]
    /\ UNCHANGED <<stats, alerts, nextId, now, cron, sent>>

globalLimiter_passes(r, c, route, hdr) ==
    /\ ip' = [ip EXCEPT ![r] = c]
    /\ hits' = [hits EXCEPT ![c] = @ + 1]
    /\ UNCHANGED <<alertHits, byUser>>
    /\ IF route = "/" THEN Root(r, route, hdr) ELSE Arrive(r, route, hdr)

\* app.use(globalLimiter): a request of client c arrives.  The limiter
\* counts it under req.ip and answers 429 once the count exceeds max;
\* otherwise the route's chain starts.
globalLimiter(r, c, route, hdr) ==
    /\ ip' = [ip EXCEPT ![r] = c]
    /\ hits' = [hits EXCEPT ![c] = @ + 1]
    /\ UNCHANGED <<alertHits, byUser>>
    /\ IF hits[c] + 1 > GlobalMax THEN TooMany(r, route, hdr)
       ELSE IF route = "/" THEN Root(r, route, hdr)
       ELSE Arrive(r, route, hdr)

\* windowMs of globalLimiter has passed: its counts start again.
GlobalWindowEnd ==
    /\ \E c \in Clients : hits[c] > 0
    /\ hits' = [c \in Clients |-> 0]
    /\ UNCHANGED <<reqs, served, stats, alerts, nextId, now, cron, sent,
                   ip, alertHits, byUser>>

\* windowMs of alertLimiter has passed: its counts start again.
AlertWindowEnd ==
    /\ \E c \in Clients : alertHits[c] > 0
    /\ alertHits' = [c \in Clients |-> 0]
    /\ byUser' = [u \in Users |-> 0]
    /\ UNCHANGED <<reqs, served, stats, alerts, nextId, now, cron, sent,
                   ip, hits>>

\* verifyIdToken resolves; the stats write is issued.
VerifyOk(r) ==
    /\ reqs[r].pc = "verify"
    /\ reqs[r].hdr.token \in ValidTokens
    /\ reqs' = [reqs EXCEPT ![r].pc = "stats", ![r].idp = "ok",
                            ![r].uid = UidOf(reqs[r].hdr.token)]
    /\ UNCHANGED <<served, stats, alerts, nextId, now, cron, sent, limVars>>

\* verifyIdToken rejects: lines 92-95.
VerifyFail(r) ==
    /\ reqs[r].pc = "verify"
    /\ reqs' = [reqs EXCEPT ![r].pc = "done", ![r].idp = "rejected",
                            ![r].status = 401]
    /\ UNCHANGED <<served, stats, alerts, nextId, now, cron, sent, limVars>>

statsSet_overwrite(st, route, uid) ==
    LET key == <<safeRoute(route), uid>>
        doc == [userId |-> uid, route |-> route, count |-> 1]
    IN [k \in DOMAIN st \cup {key} |-> IF k = key THEN doc ELSE st[k]]

\* set({userId, route, count: increment(1), ...}, {merge: true})
statsSet(st, route, uid) ==
    LET key == <<safeRoute(route), uid>>
        old == IF key \in DOMAIN st THEN st[key].count ELSE 0
        doc == [userId |-> uid, route |-> route, count |-> old + 1]
    IN [k \in DOMAIN st \cup {key} |-> IF k = key THEN doc ELSE st[k]]

alertLimiter_allRoutes(r, stat) ==
    /\ alertHits' = [alertHits EXCEPT ![ip[r]] = @ + 1]
    /\ byUser' = [byUser EXCEPT ![reqs[r].uid] = @ + 1]
    /\ reqs' = IF alertHits[ip[r]] + 1 > AlertMax
               THEN [reqs EXCEPT ![r].pc = "done", ![r].stat = stat,
                                 ![r].status = 429]
               ELSE [reqs EXCEPT ![r].pc = "handler", ![r].stat = stat,
                                 ![r].ran = TRUE]

\* next() of verifyFirebaseToken, the stats write having ended as stat: on
\* POST /postalert alertLimiter counts the request under req.ip and answers
\* 429 once the count exceeds max; otherwise, and on every other route, the
\* handler is invoked.
alertLimiter(r, stat) ==
    IF reqs[r].route = "/postalert"
    THEN /\ alertHits' = [alertHits EXCEPT ![ip[r]] = @ + 1]
         /\ byUser' = [byUser EXCEPT ![reqs[r].uid] = @ + 1]
         /\ reqs' = IF alertHits[ip[r]] + 1 > AlertMax
                    THEN [reqs EXCEPT ![r].pc = "done", ![r].stat = stat,
                                      ![r].status = 429]
                    ELSE [reqs EXCEPT ![r].pc = "handler", ![r].stat = stat,
                                      ![r].ran = TRUE]
    ELSE /\ reqs' = [reqs EXCEPT ![r].pc = "handler", ![r].stat = stat,
                                 ![r].ran = TRUE]
         /\ UNCHANGED <<alertHits, byUser>>

\* The stats write resolves, then next().
StatsOk(r) ==
    /\ reqs[r].pc = "stats"
    /\ stats' = statsSet(stats, reqs[r].route, reqs[r].uid)
    /\ alertLimiter(r, "ok")
    /\ UNCHANGED <<served, alerts, nextId, now, cron, sent, ip, hits>>

\* The stats write rejects: logged, then next().
StatsFail(r) ==
    /\ reqs[r].pc = "stats"
    /\ alertLimiter(r, "failed")
    /\ UNCHANGED <<served, stats, alerts, nextId, now, cron, sent, ip, hits>>

\* The response has been sent; the slot is free for another request.
Release(r) ==
    /\ reqs[r].pc = "done"
    /\ reqs' = [reqs EXCEPT ![r] = FreeReq]
    /\ ip' = [ip EXCEPT ![r] = ""]
    /\ UNCHANGED <<served, stats, alerts, nextId, now, cron, sent,
                   hits, alertHits, byUser>>

(* ----------------------------- handlers -------------------------------- *)
\* The document POST /postalert adds (createdAt, which nothing reads, is
\* left out).
NewAlert(uid, body) ==
    [userId |-> uid, symbol |-> body.symbol, alertName |-> body.alertName,
     targetPrice |-> body.targetPrice, direction |-> body.direction,
     triggered |-> FALSE, triggeredAt |-> NoTime]

\* if (!symbol || !targetPrice || !alertName || !direction)
MissingFields(body) ==
    \/ ~Truthy(body.symbol)
    \/ ~Truthy(body.targetPrice)
    \/ ~Truthy(body.alertName)
    \/ ~Truthy(body.direction)

ValidDirection_any(direction) == direction.k = "str"

\* ["above", "below"].includes(direction)
ValidDirection(direction) == direction \in {Str("above"), Str("below")}

\* collection("alerts").add(doc): a new document under a fresh id.
addDoc(store, id, doc) ==
    [i \in DOMAIN store \cup {id} |-> IF i = id THEN doc ELSE store[i]]

\* doc(id).delete(): succeeds whether or not the document exists.
deleteDoc(store, id) == [i \in DOMAIN store \ {id} |-> store[i]]

OwnedIds_all(store, uid) == DOMAIN store

\* collection("alerts").where("userId", "==", uid).get()
OwnedIds(store, uid) == {i \in DOMAIN store : store[i].userId = uid}

\* POST /postalert with the given body; ok: the store accepts the add.
PostAlert(r, body, ok) ==
    /\ reqs[r].pc = "handler"
    /\ reqs[r].route = "/postalert"
    /\ IF MissingFields(body) \/ ~ValidDirection(body.direction)
       THEN /\ Respond(r, 400)
            /\ UNCHANGED <<alerts, nextId>>
       ELSE IF ok
       THEN /\ nextId < MaxAlerts
            /\ nextId' = nextId + 1
            /\ alerts' = addDoc(alerts, nextId + 1, NewAlert(reqs[r].uid, body))
            /\ reqs' = [reqs EXCEPT ![r].pc = "done", ![r].status = 201,
                                    ![r].newId = nextId + 1]
       ELSE /\ Respond(r, 500)
            /\ UNCHANGED <<alerts, nextId>>
    /\ UNCHANGED <<served, stats, now, cron, sent, limVars>>

\* GET /alerts; ok: the query answers.
ListAlerts(r, ok) ==
    /\ reqs[r].pc = "handler"
    /\ reqs[r].route = "/alerts"
    /\ IF ok
       THEN reqs' = [reqs EXCEPT ![r].pc = "done", ![r].status = 200,
                       ![r].list = DocsOf(alerts, OwnedIds(alerts, reqs[r].uid))]
       ELSE Respond(r, 500)
    /\ UNCHANGED <<served, stats, alerts, nextId, now, cron, sent, limVars>>

DeleteGet_noOwnerCheck(r, id, ok) ==
    /\ reqs[r].pc = "handler"
    /\ reqs[r].route = "/alerts/:id"
    /\ reqs' = [reqs EXCEPT ![r].id = id,
                  ![r].pc = IF ok /\ id \in DOMAIN alerts THEN "delete" ELSE "done",
                  ![r].status = IF ~ok THEN 500
                                ELSE IF id \notin DOMAIN alerts THEN 404
                                ELSE 0]
    /\ UNCHANGED <<served, stats, alerts, nextId, now, cron, sent, limVars>>

\* DELETE /alerts/:id, up to the ownership check; ok: alertRef.get() answers.
DeleteGet(r, id, ok) ==
    /\ reqs[r].pc = "handler"
    /\ reqs[r].route = "/alerts/:id"
    /\ reqs' = [reqs EXCEPT ![r].id = id,
                  ![r].pc = IF ok /\ id \in DOMAIN alerts
                               /\ alerts[id].userId = reqs[r].uid
                            THEN "delete" ELSE "done",
                  ![r].status = IF ~ok THEN 500
                                ELSE IF id \notin DOMAIN alerts THEN 404
                                ELSE IF alerts[id].userId # reqs[r].uid THEN 403
                                ELSE 0]
    /\ UNCHANGED <<served, stats, alerts, nextId, now, cron, sent, limVars>>

\* DELETE /alerts/:id, alertRef.delete() answers.
DeleteDo(r, ok) ==
    /\ reqs[r].pc = "delete"
    /\ IF ok
       THEN /\ alerts' = deleteDoc(alerts, reqs[r].id)
            /\ Respond(r, 200)
       ELSE /\ alerts' = alerts
            /\ Respond(r, 500)
    /\ UNCHANGED <<served, stats, nextId, now, cron, sent, limVars>>

\* GET /stocks: four quotes fetched in turn; ok: all of them answer.
GetStocks(r, ok) ==
    /\ reqs[r].pc = "handler"
    /\ reqs[r].route = "/stocks"
    /\ Respond(r, IF ok THEN 200 ELSE 500)
    /\ UNCHANGED <<served, stats, alerts, nextId, now, cron, sent, limVars>>

\* GET /stock?symbol=...; ok: the quote and the profile both answer.
GetStock(r, symbol, ok) ==
    /\ reqs[r].pc = "handler"
    /\ reqs[r].route = "/stock"
    /\ Respond(r, IF ~Truthy(symbol) \/ symbol.k # "str" THEN 400
                  ELSE IF ok THEN 200 ELSE 500)
    /\ UNCHANGED <<served, stats, alerts, nextId, now, cron, sent, limVars>>

\* GET /stats; ok: the collection group query answers.
GetStats(r, ok) ==
    /\ reqs[r].pc = "handler"
    /\ reqs[r].route = "/stats"
    /\ Respond(r, IF ok THEN 200 ELSE 500)
    /\ UNCHANGED <<served, stats, alerts, nextId, now, cron, sent, limVars>>

\* The handlers that only read.
ReadStep(r) ==
    \/ \E ok \in BOOLEAN : GetStocks(r, ok)
    \/ \E symbol \in {Undef, Str("AAPL")}, ok \in BOOLEAN : GetStock(r, symbol, ok)
    \/ \E ok \in BOOLEAN : GetStats(r, ok)

\* The steps of a request behind the stats write.
HandlerStep(r, bodies) ==
    \/ \E body \in bodies, ok \in BOOLEAN : PostAlert(r, body, ok)
    \/ \E ok \in BOOLEAN : ListAlerts(r, ok)
    \/ \E id \in AlertIds, ok \in BOOLEAN : DeleteGet(r, id, ok)
    \/ \E ok \in BOOLEAN : DeleteDo(r, ok)
    \/ Release(r)

\* The whole system: the requests of one user, one in flight at a time,
\* next to overlapping cron invocations.  The stats collection is taken to
\* be unavailable here (every stats write rejects, which the gate swallows);
\* SpecHttp below covers the stats writes.
CronHeaders == {[scheme |-> "Bearer", token |-> "tokA"]}
CronBodies == GoodBodies \cup {Body(Str("AAPL"), Num(2), Str("n"), Str("sideways"))}

Next ==
    \/ \E route \in Routes, hdr \in CronHeaders :
          served < CronRequests /\ globalLimiter(1, "c1", route, hdr)
    \/ VerifyOk(1)
    \/ VerifyFail(1)
    \/ StatsFail(1)
    \/ HandlerStep(1, CronBodies)
    \/ \E w \in Cycles : CronStep(w)
    \/ Tick

Spec == Init /\ [][Next]_vars

\* The HTTP surface alone, with concurrent requests.
NextHttp ==
    \E r \in Slots :
        \/ \E route \in Routes, hdr \in Headers : globalLimiter(r, "c1", route, hdr)
        \/ VerifyOk(r)
        \/ VerifyFail(r)
        \/ StatsOk(r)
        \/ StatsFail(r)
        \/ HandlerStep(r, Bodies)

SpecHttp == Init /\ [][NextHttp]_vars

\* The rate limiters at their limits.  The run starts late in a window, in
\* a state the requests of client c1 so far have led to: either c1 has made
\* GlobalMax - 1 requests, none of which passed the gate, or all its
\* AlertMax - 1 requests were POST /postalert of user A that stored nothing
\* and whose stats writes failed.
InitLimit ==
    /\ reqs = [r \in Slots |-> FreeReq]
    /\ served = 0
    /\ stats = <<>>
    /\ alerts = <<>>
    /\ nextId = 0
    /\ now = 0
    /\ cron = [w \in Cycles |-> IdleCron]
    /\ sent = [i \in AlertIds |-> 0]
    /\ ip = [r \in Slots |-> ""]
    /\ \E posts \in {0, AlertMax - 1} :
          /\ hits = [c \in Clients |->
                      IF c # "c1" THEN 0
                      ELSE IF posts = 0 THEN GlobalMax - 1 ELSE posts]
          /\ alertHits = [c \in Clients |-> IF c = "c1" THEN posts ELSE 0]
          /\ byUser = [u \in Users |-> IF u = "A" THEN posts ELSE 0]

AllRoutes == Routes \cup {"/", "/stocks", "/stock", "/stats"}
LimitHeaders == {NoHeader, [scheme |-> "Bearer", token |-> "tokA"]}
LimitBodies == {Body(Str("AAPL"), Num(2), Str("n"), Str("above")),
                Body(Str("AAPL"), Num(2), Str("n"), Undef)}

NextLimit ==
    \/ \E c \in Clients, route \in AllRoutes, hdr \in LimitHeaders :
          globalLimiter(1, c, route, hdr)
    \/ VerifyOk(1)
    \/ VerifyFail(1)
    \/ StatsOk(1)
    \/ StatsFail(1)
    \/ HandlerStep(1, LimitBodies)
    \/ ReadStep(1)
    \/ GlobalWindowEnd
    \/ AlertWindowEnd

SpecLimit == InitLimit /\ [][NextLimit]_vars

\* Cron invocations that never overlap (each has ended before the schedule
\* fires again), next to the requests of two users on every route.
SerialHeaders == {[scheme |-> "Bearer", token |-> "tokA"],
                  [scheme |-> "Bearer", token |-> "tokB"]}
SerialBodies == {Body(Str("AAPL"), Num(2), Str("n"), Str("above"))}

NextSerial ==
    \/ \E route \in AllRoutes, hdr \in SerialHeaders :
          served < CronRequests /\ globalLimiter(1, "c1", route, hdr)
    \/ VerifyOk(1)
    \/ VerifyFail(1)
    \/ StatsOk(1)
    \/ StatsFail(1)
    \/ HandlerStep(1, SerialBodies)
    \/ ReadStep(1)
    \/ CronStep(1)
    \/ Tick

SpecSerial == Init /\ [][NextSerial]_vars

\* Progress of the evaluator.  Every alert is created with target 2 and the
\* feed answers 2 at every fetch, so the predicate of every alert holds at
\* every fetch.  The schedule keeps firing and the query of a new invocation
\* is eventually answered; a running invocation takes its next step when the
\* awaited call settles; and for each alert the quote, the user lookup and
\* the update do not fail for ever.
LivePrice == 2

LiveStep(w) ==
    \/ CronLoad(w)
    \/ CronLoadFail(w)
    \/ QuoteOk(w, LivePrice)
    \/ QuoteFail(w)
    \/ \E e \in BOOLEAN : GetUserOk(w, e)
    \/ GetUserFail(w)
    \/ \E ok \in BOOLEAN : sendEmail(w, ok)
    \/ UpdateOk(w)
    \/ UpdateFail(w)

NextLive ==
    \/ \E route \in Routes, hdr \in CronHeaders :
          served < CronRequests /\ globalLimiter(1, "c1", route, hdr)
    \/ VerifyOk(1)
    \/ StatsFail(1)
    \/ HandlerStep(1, SerialBodies)
    \/ LiveStep(1)

Fairness ==
    /\ WF_vars(LiveStep(1))
    /\ WF_vars(CronLoad(1))
    /\ \A i \in AlertIds :
          /\ SF_vars(QuoteOk(1, LivePrice) /\ Cur(1).id = i)
          /\ SF_vars((\E e \in BOOLEAN : GetUserOk(1, e)) /\ Cur(1).id = i)
          /\ SF_vars(UpdateOk(1) /\ Cur(1).id = i)

SpecLive == Init /\ [][NextLive]_vars /\ Fairness

(* ======================= properties of the evaluator =================== *)
\* Invocation w is inside its loop.
Running(w) == cron[w].pc \in {"quote", "getUser", "sendEmail", "update"}

\* The store holds document i with triggered = true.
Triggered(store, i) == i \in DOMAIN store /\ store[i].triggered

\* The ids the query for untriggered alerts would answer on this store.
WouldLoad(store) ==
    LET docs == DocsOf(store, UntriggeredIds(store))
    IN {docs[j].id : j \in 1..Len(docs)}

\* The trigger predicate as the specification states it, on a stored alert
\* with a numeric target.
Predicate(a, p) ==
    \/ a.direction.s = "above" /\ a.targetPrice.k = "num" /\ p >= a.targetPrice.n
    \/ a.direction.s = "below" /\ a.targetPrice.k = "num" /\ p <= a.targetPrice.n

\* C1: when the price fetch for an alert of the snapshot answers price p, the
\* invocation goes on to notify and mark that alert if and only if
\* (above and p >= target) or (below and p <= target); otherwise it moves to
\* the next alert, leaves the store and the mail count as they were, and
\* the alert, if it was untriggered, is still answered by the query for
\* untriggered alerts.
C1_TriggerIffPredicate ==
    [][\A w \in Cycles, p \in Prices :
        QuoteOk(w, p) =>
          LET a == Cur(w)
              decided == /\ cron'[w].pc = "getUser"
                         /\ cron'[w].idx = cron[w].idx
                         /\ cron'[w].price = p
          IN /\ decided <=> Predicate(a.data, p)
             /\ ~Predicate(a.data, p) =>
                  /\ alerts' = alerts
                  /\ sent' = sent
                  /\ cron'[w].pc \in {"quote", "idle"}
                  /\ (a.id \in UntriggeredIds(alerts) => a.id \in WouldLoad(alerts'))
      ]_vars

\* C1 witness: an invocation has decided to trigger an alert on a price equal
\* to its target.
C1_Witness ==
    \E w \in Cycles :
        /\ cron[w].pc = "getUser"
        /\ Cur(w).data.targetPrice = Num(cron[w].price)

\* C2: in every step, an alert that has triggered = true either keeps it or
\* is deleted, a deleted id never comes back, and an alert that appears in
\* the store appears with triggered = false.
C2_TriggeredLatch ==
    [][\A i \in AlertIds :
        /\ Triggered(alerts, i) /\ i \in DOMAIN alerts' => alerts'[i].triggered
        /\ i \notin DOMAIN alerts /\ i \in DOMAIN alerts' =>
             /\ ~alerts'[i].triggered
             /\ i > nextId
      ]_vars

\* C2 witness: a triggered alert in the store while a request is in flight.
C2_Witness ==
    /\ \E i \in DOMAIN alerts : alerts[i].triggered
    /\ reqs[1].pc = "handler"

\* Invocation w issues the price fetch for an alert in this step.
IssuesFetch(w) ==
    /\ cron'[w].pc = "quote"
    /\ cron[w].pc # "quote" \/ cron'[w].idx # cron[w].idx

\* C3 as claimed: no invocation issues a price fetch, calls sendEmail or
\* writes for an alert that already has triggered = true.
C3_NoWorkOnTriggered ==
    [][\A w \in Cycles :
        /\ IssuesFetch(w) => ~Triggered(alerts', cron'[w].snap[cron'[w].idx].id)
        /\ (\E ok \in BOOLEAN : sendEmail(w, ok)) => ~Triggered(alerts, Cur(w).id)
        /\ UpdateOk(w) => ~Triggered(alerts, Cur(w).id)
      ]_vars

\* C3 amended: the snapshot an invocation loads holds exactly the alerts that
\* are untriggered in the store at that moment, the snapshot does not change
\* while the invocation runs, and a running invocation works on an alert of
\* its snapshot: no invocation that loads its snapshot after an alert got
\* triggered = true fetches its price, sends an email for it or writes to it.
C3_LoadedUntriggered ==
    [][\A w \in Cycles :
        /\ Ended(w) /\ Running(w)' =>
             /\ cron'[w].idx = 1
             /\ {cron'[w].snap[j].id : j \in 1..Len(cron'[w].snap)}
                  = {i \in DOMAIN alerts : ~alerts[i].triggered}
             /\ \A j \in 1..Len(cron'[w].snap) :
                  cron'[w].snap[j].data = alerts[cron'[w].snap[j].id]
        /\ Running(w) /\ Running(w)' =>
             /\ cron'[w].snap = cron[w].snap
             /\ cron'[w].idx \in 1..Len(cron[w].snap)
        /\ Running(w) => ~Cur(w).data.triggered
      ]_vars

\* C3 witness: an invocation is running on a snapshot that leaves out an
\* alert of the store that is triggered.
C3_Witness ==
    \E w \in Cycles, i \in DOMAIN alerts :
        /\ alerts[i].triggered
        /\ Running(w)
        /\ \A j \in 1..Len(cron[w].snap) : cron[w].snap[j].id # i

\* The order of the awaits within one iteration.
Stage(pc) ==
    CASE pc = "quote"     -> 1
      [] pc = "getUser"   -> 2
      [] pc = "sendEmail" -> 3
      [] pc = "update"    -> 4

\* The step is a failure for the alert invocation w is at: a call of its
\* iteration rejects, or the mail service refuses the message.
FailureStep(w) ==
    \/ QuoteFail(w)
    \/ GetUserFail(w)
    \/ sendEmail(w, FALSE)
    \/ UpdateFail(w)

\* C4: a running invocation never ends in a rejection and never skips or
\* repeats an alert of its snapshot.  Every step it takes, failures included,
\* stays on the current alert, at the same or a later await, or moves to the
\* next alert of the unchanged snapshot, and it returns only from the last
\* one; a failure step changes
\* nothing of the other invocations.
C4_FailureDoesNotAbort ==
    [][\A w \in Cycles :
        /\ Running(w) =>
             \/ /\ cron'[w].snap = cron[w].snap
                /\ cron'[w].idx = cron[w].idx
                /\ Running(w)'
                /\ Stage(cron'[w].pc) >= Stage(cron[w].pc)
             \/ /\ cron[w].idx < Len(cron[w].snap)
                /\ cron'[w].snap = cron[w].snap
                /\ cron'[w].idx = cron[w].idx + 1
                /\ cron'[w].pc = "quote"
             \/ /\ cron[w].idx = Len(cron[w].snap)
                /\ cron'[w].pc = "idle"
        /\ FailureStep(w) =>
             /\ cron'[w].pc # "rejected"
             /\ \A v \in Cycles \ {w} : cron'[v] = cron[v]
      ]_vars

\* C4 witness: an invocation that caught an error on the first alert of its
\* snapshot is evaluating the second.
C4_Witness ==
    \E w \in Cycles :
        /\ cron[w].err # "none"
        /\ cron[w].idx = 2
        /\ Running(w)

\* C5: when the price fetch of an alert rejects, no e-mail is sent, the
\* store is left as it was (triggered stays false), the invocation moves on,
\* and the query of a later invocation still answers the alert if it is
\* untriggered in the store.
C5_FetchFailureSkips ==
    [][\A w \in Cycles :
        QuoteFail(w) =>
          /\ sent' = sent
          /\ alerts' = alerts
          /\ cron'[w].pc \in {"quote", "idle"}
          /\ cron'[w].pc = "quote" => cron'[w].idx = cron[w].idx + 1
          /\ (Cur(w).id \in DOMAIN alerts /\ ~alerts[Cur(w).id].triggered)
               => Cur(w).id \in WouldLoad(alerts')
      ]_vars

\* C5 witness: an invocation whose price fetch for the first alert of its
\* snapshot rejected is at the second, and the first is in the store,
\* untriggered and without any e-mail.
C5_Witness ==
    \E w \in Cycles :
        /\ cron[w].err = "quote"
        /\ cron[w].idx = 2
        /\ Running(w)
        /\ \E i \in DOMAIN alerts :
             /\ cron[w].snap[1].id = i
             /\ ~alerts[i].triggered
             /\ sent[i] = 0

\* C6: when the mail service refuses the message, the invocation goes on to
\* the update of the same alert with the store untouched, and an update that
\* the store accepts sets triggered = true and triggeredAt whatever became of
\* the e-mail; an alert marked this way is not answered by the query for
\* untriggered alerts, so no later invocation notifies it again.
C6_MailFailureStillMarks ==
    [][\A w \in Cycles :
        /\ sendEmail(w, FALSE) =>
             /\ cron'[w].pc = "update"
             /\ cron'[w].idx = cron[w].idx
             /\ cron'[w].snap = cron[w].snap
             /\ alerts' = alerts
             /\ sent' = sent
        /\ (cron[w].pc = "sendEmail" /\ cron'[w] # cron[w]) => cron'[w].pc = "update"
        /\ (UpdateOk(w) /\ cron[w].mail = "failed") =>
             /\ alerts'[Cur(w).id].triggered
             /\ alerts'[Cur(w).id].triggeredAt = now
             /\ alerts'[Cur(w).id].triggeredAt # NoTime
             /\ Cur(w).id \notin WouldLoad(alerts')
             /\ sent' = sent
      ]_vars

\* C6 witness: an invocation whose e-mail for the first alert of its
\* snapshot was refused is at the second alert, and the first is marked
\* triggered, with triggeredAt set, without any e-mail accepted for it.
C6_Witness ==
    \E w \in Cycles :
        /\ cron[w].err = "sendEmail"
        /\ cron[w].idx = 2
        /\ \E i \in DOMAIN alerts :
             /\ cron[w].snap[1].id = i
             /\ alerts[i].triggered
             /\ alerts[i].triggeredAt # NoTime
             /\ sent[i] = 0

(* ======================= properties of the HTTP surface ================ *)
\* Request r is answered in this step.
Answered(r) == reqs[r].pc # "done" /\ reqs'[r].pc = "done"

\* C7: DELETE /alerts/:id answers 404 only for an id with no alert and 403
\* only for an alert of another user, never 200 or 403 for a missing id and
\* never 200 for another user's alert; the existence and ownership checks
\* and every answer other than 200 leave the store as it was; the delete that
\* is answered 200 removes the alert of that id and changes no other; and an
\* alert leaves the store only in the delete step of a request of its owner.
C7_DeleteChecks ==
    [][/\ \A r \in Slots :
            /\ (reqs[r].pc = "handler" /\ reqs[r].route = "/alerts/:id"
                  /\ reqs'[r] # reqs[r]) =>
                 LET id == reqs'[r].id
                     code == reqs'[r].status
                     missing == id \notin DOMAIN alerts
                 IN /\ alerts' = alerts
                    /\ missing => code \in {404, 500} /\ reqs'[r].pc = "done"
                    /\ (~missing /\ alerts[id].userId # reqs[r].uid)
                         => code \in {403, 500} /\ reqs'[r].pc = "done"
                    /\ code = 404 => missing
                    /\ code = 403 => ~missing /\ alerts[id].userId # reqs[r].uid
                    /\ reqs'[r].pc = "delete"
                         => ~missing /\ alerts[id].userId = reqs[r].uid
            /\ (Answered(r) /\ reqs[r].route = "/alerts/:id") =>
                 IF reqs'[r].status = 200
                 THEN /\ DOMAIN alerts' = DOMAIN alerts \ {reqs[r].id}
                      /\ \A i \in DOMAIN alerts' : alerts'[i] = alerts[i]
                 ELSE alerts' = alerts
       /\ \A i \in DOMAIN alerts :
            i \notin DOMAIN alerts' =>
              \E r \in Slots :
                 /\ reqs[r].route = "/alerts/:id"
                 /\ reqs[r].id = i
                 /\ reqs[r].uid = alerts[i].userId
                 /\ reqs'[r].status = 200
      ]_vars

\* C7 witness: a delete by another user has been answered 403, and a delete
\* of the same alert by its owner has been answered 200 and removed it.
C7_Witness ==
    \E r \in Slots, q \in Slots :
        /\ reqs[r].route = "/alerts/:id" /\ reqs[r].status = 403
        /\ reqs[q].route = "/alerts/:id" /\ reqs[q].status = 200
        /\ reqs[q].id = reqs[r].id
        /\ reqs[q].id \notin DOMAIN alerts

\* C8: the list GET /alerts answers to user A holds, once each, exactly the
\* alerts of the store whose userId is A, with their data.
C8_ListIsolation ==
    [][\A r \in Slots :
        (Answered(r) /\ reqs[r].route = "/alerts" /\ reqs'[r].status = 200) =>
          LET L == reqs'[r].list
              ids == {L[j].id : j \in 1..Len(L)}
          IN /\ ids = {i \in DOMAIN alerts : alerts[i].userId = reqs[r].uid}
             /\ Cardinality(ids) = Len(L)
             /\ \A j \in 1..Len(L) :
                  /\ L[j].data = alerts[L[j].id]
                  /\ L[j].data.userId = reqs[r].uid
      ]_vars

\* C8 witness: a user got a non-empty list while the store also holds an
\* alert of the other user.
C8_Witness ==
    \E r \in Slots :
        /\ reqs[r].route = "/alerts" /\ reqs[r].status = 200
        /\ reqs[r].list # <<>>
        /\ \E i \in DOMAIN alerts : alerts[i].userId # reqs[r].uid

\* A body the claim calls invalid: a field is missing, or direction is not
\* above or below.
Rejected(body) ==
    \/ Undef \in {body.symbol, body.targetPrice, body.alertName, body.direction}
    \/ body.direction \notin {Str("above"), Str("below")}

\* C9: POST /postalert answers 400 and stores nothing when a field of the
\* body is missing or direction is neither above nor below; when it answers
\* 201 the store has gained exactly one alert, under a new id, with userId
\* the caller, triggered = false, no triggeredAt and the fields of the body;
\* every other answer leaves the store as it was; and every alert of the
\* store has direction above or below.
C9_PostAlertValidation ==
    [][/\ \A r \in Slots, body \in Bodies, ok \in BOOLEAN :
            PostAlert(r, body, ok) =>
              /\ Rejected(body) => reqs'[r].status = 400
              /\ reqs'[r].status # 201 => alerts' = alerts /\ nextId' = nextId
              /\ reqs'[r].status = 201 =>
                   LET id == reqs'[r].newId
                   IN /\ id \notin DOMAIN alerts
                      /\ DOMAIN alerts' = DOMAIN alerts \cup {id}
                      /\ \A i \in DOMAIN alerts : alerts'[i] = alerts[i]
                      /\ alerts'[id].userId = reqs[r].uid
                      /\ alerts'[id].triggered = FALSE
                      /\ alerts'[id].triggeredAt = NoTime
                      /\ alerts'[id].symbol = body.symbol
                      /\ alerts'[id].targetPrice = body.targetPrice
                      /\ alerts'[id].alertName = body.alertName
                      /\ alerts'[id].direction = body.direction
       /\ \A i \in DOMAIN alerts' :
            alerts'[i].direction \in {Str("above"), Str("below")}
      ]_vars

\* C9 witness: one POST /postalert has been answered 400, another 201, and
\* the store holds the alert of the second and nothing else.
C9_Witness ==
    \E r \in Slots, q \in Slots :
        /\ reqs[r].route = "/postalert" /\ reqs[r].status = 400
        /\ reqs[q].route = "/postalert" /\ reqs[q].status = 201
        /\ DOMAIN alerts = {reqs[q].newId}

\* C10: a request reaches its handler only with a token the identity provider
\* has verified; a request without a "Bearer <token>" header is answered 401
\* with the identity provider never called, a request whose verification
\* rejects is answered 401, and in both cases the handler does not run, no
\* usage stat is written and the alert store is left as it was.
C10_GateRejects ==
    [][\A r \in Slots :
        /\ reqs'[r].ran => reqs'[r].idp = "ok" /\ reqs'[r].hdr.scheme = "Bearer"
        /\ reqs'[r].pc \in {"handler", "delete"} => reqs'[r].ran
        /\ (reqs'[r].pc # "free" /\ reqs'[r].hdr.scheme # "Bearer") =>
             /\ reqs'[r].pc = "done" /\ reqs'[r].status = 401
             /\ reqs'[r].idp = "none"
             /\ ~reqs'[r].ran /\ reqs'[r].stat = "none"
        /\ reqs'[r].idp = "rejected" =>
             /\ reqs'[r].pc = "done" /\ reqs'[r].status = 401
             /\ ~reqs'[r].ran /\ reqs'[r].stat = "none"
        /\ (Answered(r) /\ reqs'[r].status = 401) =>
             /\ alerts' = alerts /\ nextId' = nextId
             /\ stats' = stats
      ]_vars

\* C10 witness: one request was answered 401 for its header, another after
\* the identity provider rejected its token.
C10_Witness ==
    \E r \in Slots, q \in Slots :
        /\ reqs[r].status = 401 /\ reqs[r].idp = "none"
        /\ reqs[q].status = 401 /\ reqs[q].idp = "rejected"

(* ======================= usage stats ================================== *)
\* C11: the stats write neither blocks nor fails the request: a request
\* whose token is verified has had its handler invoked also while its stats
\* write has not completed, and a request whose stats write failed is not
\* answered before its handler ran.
C11_StatsNeverBlocks ==
    \A r \in Slots :
        /\ (reqs[r].idp = "ok" /\ reqs[r].stat = "none") => reqs[r].ran
        /\ (reqs[r].stat = "failed" /\ reqs[r].pc = "done") =>
             reqs[r].ran \/ reqs[r].status = 429

\* The count of the usage document of (route, uid), 0 while there is none.
CountOf(st, route, uid) ==
    LET key == <<safeRoute(route), uid>>
    IN IF key \in DOMAIN st THEN st[key].count ELSE 0

\* The requests of (route, uid) whose stats write succeeds in this step.
StatsWrites(route, uid) ==
    {r \in Slots : /\ reqs[r].pc = "stats" /\ reqs'[r].stat = "ok"
                   /\ reqs[r].route = route /\ reqs[r].uid = uid}

\* C12: for every (route, user) pair, every step raises count by exactly the
\* number of requests of that pair whose stats write succeeds in the step
\* (so that, count starting at 0, it equals the number of successful writes
\* after any interleaving), and count never decreases.
C12_NoLostUpdate ==
    [][\A route \in Routes, uid \in Users :
        /\ CountOf(stats', route, uid) =
             CountOf(stats, route, uid) + Cardinality(StatsWrites(route, uid))
        /\ CountOf(stats', route, uid) >= CountOf(stats, route, uid)
      ]_vars

\* C12 witness: two requests of the same user and route are in flight
\* together, the stats write of each has succeeded, and count is 2.
C12_Witness ==
    /\ reqs[1].pc = "handler" /\ reqs[2].pc = "handler"
    /\ reqs[1].stat = "ok" /\ reqs[2].stat = "ok"
    /\ reqs[1].route = reqs[2].route /\ reqs[1].uid = reqs[2].uid
    /\ CountOf(stats, reqs[1].route, reqs[1].uid) = 2

(* ======================= stored alerts ================================= *)
\* C16: every alert in the store has a positive numeric targetPrice.
C16_TargetPricePositive ==
    \A i \in DOMAIN alerts :
        /\ alerts[i].targetPrice.k = "num"
        /\ alerts[i].targetPrice.n > 0

\* C15: triggeredAt is set exactly once, in the step where triggered goes
\* from false to true: an alert with triggered = false has no triggeredAt,
\* the step that sets triggered also sets triggeredAt, and no step changes
\* the triggeredAt of an alert that already has triggered = true.
C15_TriggeredAtOnce ==
    [][\A i \in AlertIds :
        /\ (i \in DOMAIN alerts' /\ ~alerts'[i].triggered) =>
             alerts'[i].triggeredAt = NoTime
        /\ (i \in DOMAIN alerts /\ ~alerts[i].triggered /\ Triggered(alerts', i)) =>
             alerts'[i].triggeredAt # NoTime
        /\ (Triggered(alerts, i) /\ i \in DOMAIN alerts') =>
             alerts'[i].triggeredAt = alerts[i].triggeredAt
      ]_vars

(* ======================= deletion next to the evaluator ================ *)
\* Alert i was created and is no longer in the store: a delete of its owner
\* has been answered by the store.
Deleted(i) == i <= nextId /\ i \notin DOMAIN alerts

\* C19: once an alert has been deleted, no step has an e-mail accepted for
\* it, and no step writes it back into the store.
C19_DeletedIsQuiet ==
    [][\A i \in AlertIds :
        Deleted(i) => /\ sent'[i] = sent[i]
                      /\ i \notin DOMAIN alerts'
      ]_vars

(* ======================= properties of the rate limiters =============== *)
\* Request r is received in this step.
Received(r) == reqs[r].pc = "free" /\ reqs'[r].pc # "free"

\* C13: a request of a client that has already made GlobalMax requests in
\* the current window is answered 429 on arrival, with no token
\* verification, no stats write, no alertLimiter count, no handler run and
\* the alert store, the mail counts and the cron invocations left as they
\* were; a request of a client below the limit is not answered 429 on
\* arrival; and a request answered 429 on arrival goes nowhere else.
C13_GlobalGate ==
    [][\A r \in Slots :
        /\ (Received(r) /\ hits[ip'[r]] >= GlobalMax) =>
             /\ reqs'[r].pc = "done" /\ reqs'[r].status = 429
             /\ reqs'[r].idp = "none" /\ reqs'[r].stat = "none"
             /\ ~reqs'[r].ran
             /\ stats' = stats /\ alertHits' = alertHits /\ byUser' = byUser
             /\ alerts' = alerts /\ nextId' = nextId
             /\ sent' = sent /\ cron' = cron
        /\ (Received(r) /\ hits[ip'[r]] < GlobalMax) => reqs'[r].status # 429
        /\ Received(r) => hits'[ip'[r]] = hits[ip'[r]] + 1
        /\ (reqs[r].status = 429 /\ reqs[r].idp = "none") =>
             reqs'[r].pc = "free" \/ reqs'[r] = reqs[r]
      ]_vars

\* C13 witness: client c1 is over the limit and its request was answered
\* 429 on arrival, without the identity provider being called.
C13_Witness ==
    /\ hits["c1"] > GlobalMax
    /\ reqs[1].pc = "done" /\ reqs[1].status = 429 /\ reqs[1].idp = "none"
    /\ ip[1] = "c1"
    /\ reqs[1].hdr.scheme = "Bearer"

\* Request r leaves the gate in this step: its stats write has ended and
\* next() is called.
Passing(r) == reqs[r].pc = "stats" /\ reqs'[r].pc # "stats"

\* C14 as stated, with the quota of alertLimiter counted per user: a POST
\* /postalert of a user who has already had AlertMax such requests reach the
\* limiter in the window is answered 429 and stores no alert, and requests to
\* other routes neither consume the quota nor are answered 429 by it.
C14_PerUserQuota ==
    [][\A r \in Slots :
        /\ (Passing(r) /\ reqs[r].route = "/postalert"
              /\ byUser[reqs[r].uid] >= AlertMax) =>
             /\ reqs'[r].pc = "done" /\ reqs'[r].status = 429
             /\ ~reqs'[r].ran
             /\ alerts' = alerts
        /\ (Passing(r) /\ reqs[r].route # "/postalert") =>
             /\ byUser' = byUser
             /\ reqs'[r].pc = "handler"
      ]_vars

\* C14, with the quota counted per client (req.ip): alertLimiter counts a
\* request only when it is a POST /postalert that has passed globalLimiter
\* and the gate; such a request of a client that has already had AlertMax of
\* them counted in the window is answered 429, its handler does not run and
\* no alert is stored, and below the limit its handler is invoked; a request
\* to another route leaves the counts alone and goes on to its handler; the
\* counts change in no other step except at the end of the window; and an
\* alert is stored only for a request admitted below the limit.
C14_PerClientQuota ==
    [][/\ \A r \in Slots :
            /\ (Passing(r) /\ reqs[r].route = "/postalert") =>
                 /\ reqs[r].idp = "ok" /\ reqs[r].status # 429
                 /\ alertHits' = [alertHits EXCEPT ![ip[r]] = @ + 1]
                 /\ alerts' = alerts
                 /\ IF alertHits[ip[r]] >= AlertMax
                    THEN /\ reqs'[r].pc = "done" /\ reqs'[r].status = 429
                         /\ ~reqs'[r].ran
                    ELSE reqs'[r].pc = "handler"
            /\ (Passing(r) /\ reqs[r].route # "/postalert") =>
                 /\ alertHits' = alertHits
                 /\ reqs'[r].pc = "handler"
            /\ (reqs[r].pc = "handler" /\ reqs'[r].status = 201) =>
                 /\ reqs[r].ran
                 /\ alertHits[ip[r]] <= AlertMax
            /\ (reqs[r].status = 429 /\ reqs[r].idp = "ok") =>
                 reqs'[r].pc = "free" \/ reqs'[r] = reqs[r]
       /\ alertHits' # alertHits =>
            \/ \E r \in Slots : Passing(r) /\ reqs[r].route = "/postalert"
            \/ alertHits' = [c \in Clients |-> 0]
      ]_vars

\* C14 witness: client c1 is over the limit of alertLimiter and its POST
\* /postalert, with a verified token, was answered 429 without its handler
\* running.
C14_Witness ==
    /\ alertHits["c1"] > AlertMax
    /\ ip[1] = "c1"
    /\ reqs[1].route = "/postalert"
    /\ reqs[1].pc = "done" /\ reqs[1].status = 429
    /\ reqs[1].idp = "ok" /\ ~reqs[1].ran

(* ======================= notifications ================================= *)
\* C18: when cron invocations do not overlap, the mail service accepts at
\* most one e-mail per alert.
C18_AtMostOneMail == \A i \in AlertIds : sent[i] <= 1

(* ======================= frame of the alert store ====================== *)
\* The fields of an alert no operation may change.
Fixed(a) == <<a.userId, a.symbol, a.alertName, a.targetPrice, a.direction>>

\* Invocation w marks alert i in this step.
Marks(w, i) ==
    /\ cron[w].pc = "update" /\ cron'[w] # cron[w]
    /\ Cur(w).id = i

\* Request r, of the owner of alert i, has its delete of i answered 200 in
\* this step.
OwnerDeletes(r, i) ==
    /\ reqs[r].pc = "delete" /\ reqs[r].route = "/alerts/:id"
    /\ reqs[r].id = i /\ reqs[r].uid = alerts[i].userId
    /\ reqs'[r].status = 200

C20_EventuallyTriggered ==
    /\ Running(1) ~> Ended(1)
    /\ \A i \in AlertIds :
         (i \in DOMAIN alerts /\ ~alerts[i].triggered)
            ~> (i \notin DOMAIN alerts \/ alerts[i].triggered)

\* C20 witness: an alert is marked triggered after an invocation in which a
\* call for it failed, and the invocation has ended.
C20_Witness ==
    \E i \in DOMAIN alerts :
        /\ alerts[i].triggered
        /\ sent[i] = MaxMails
        /\ Ended(1)

====
